---- MODULE Spec2Model ----
(***************************************************************************)
(* Model of src/main.py: the G2Crowd scraper.                              *)
(*                                                                         *)
(* scrape_g2crowd_urls is modelled statement by statement as a sequential  *)
(* state machine (pc), with Python's exception propagation made explicit:  *)
(* the loop body's try catches playwright's Error only, everything else    *)
(* unwinds to the exit of the enclosing `async with`.                      *)
(*                                                                         *)
(* Text is a sequence of one-character strings, so that str(), split(),    *)
(* int() and float() are computed character by character.  The alphabet    *)
(* the model's pages use is digits, letters, space, comma, dot, bracket,   *)
(* apostrophe, double quote, backslash and newline; int() and float() are  *)
(* modelled on that alphabet (decimal digits, an optional sign, an         *)
(* optional fraction, surrounding spaces stripped).                        *)
(***************************************************************************)
EXTENDS Integers, Sequences, FiniteSets, TLC

\* Longest URL list the model explores.
MaxUrls == 2

----------------------------------------------------------------------------
(* Python values *)

\* Optional values: None is the empty tuple, a present value v is <<v>>.
None == <<>>
Some(v) == <<v>>

\* A Python call either returns a value or raises an exception type.
Return(v) == [raised |-> "none", val |-> v]
Raise(e) == [raised |-> e, val |-> None]

Digits == {"0", "1", "2", "3", "4", "5", "6", "7", "8", "9"}

DigitVal(c) ==
  CASE c = "0" -> 0 [] c = "1" -> 1 [] c = "2" -> 2 [] c = "3" -> 3
    [] c = "4" -> 4 [] c = "5" -> 5 [] c = "6" -> 6 [] c = "7" -> 7
    [] c = "8" -> 8 [] c = "9" -> 9

\* s.split(sep) for a one-character separator: every occurrence splits, so
\* adjacent separators give empty segments and a text without the separator
\* gives the one-element list.
RECURSIVE Split(_, _)
Split(s, sep) ==
  IF \A k \in 1..Len(s) : s[k] # sep
    THEN <<s>>
    ELSE LET k == CHOOSE j \in 1..Len(s) :
                    s[j] = sep /\ \A h \in 1..(j - 1) : s[h] # sep
         IN  <<SubSeq(s, 1, k - 1)>> \o Split(SubSeq(s, k + 1, Len(s)), sep)

\* xs[1] in Python (the second item): IndexError when there is none.
Index1(xs) == IF Len(xs) >= 2 THEN Return(xs[2]) ELSE Raise("IndexError")

\* repr() of a str: double quotes when the text holds an apostrophe and no
\* double quote, single quotes otherwise; the quote character, the backslash
\* and the newline are escaped.
RECURSIVE Escaped(_, _)
Escaped(s, quote) ==
  IF s = <<>> THEN <<>>
  ELSE LET c == Head(s)
           e == IF c = "\\" \/ c = quote THEN <<"\\", c>>
                ELSE IF c = "\n" THEN <<"\\", "n">>
                ELSE <<c>>
       IN  e \o Escaped(Tail(s), quote)

Has(s, c) == \E k \in 1..Len(s) : s[k] = c

ReprStr(s) ==
  LET quote == IF Has(s, "'") /\ ~Has(s, "\"") THEN "\"" ELSE "'"
  IN  <<quote>> \o Escaped(s, quote) \o <<quote>>

\* str() of a list of str: the bracketed reprs joined by ", ".
RECURSIVE JoinRepr(_)
JoinRepr(xs) ==
  IF xs = <<>> THEN <<>>
  ELSE IF Len(xs) = 1 THEN ReprStr(xs[1])
  ELSE ReprStr(xs[1]) \o <<",", " ">> \o JoinRepr(Tail(xs))

StrOfList(xs) == <<"[">> \o JoinRepr(xs) \o <<"]">>

\* Surrounding whitespace, which int() and float() ignore.
RECURSIVE Strip(_)
Strip(s) ==
  IF s # <<>> /\ Head(s) \in {" ", "\n"} THEN Strip(Tail(s))
  ELSE IF s # <<>> /\ s[Len(s)] \in {" ", "\n"} THEN Strip(SubSeq(s, 1, Len(s) - 1))
  ELSE s

RECURSIVE DigitsVal(_)
DigitsVal(s) ==
  IF s = <<>> THEN 0 ELSE 10 * DigitsVal(SubSeq(s, 1, Len(s) - 1)) + DigitVal(s[Len(s)])

AllDigits(s) == \A k \in 1..Len(s) : s[k] \in Digits

Unsigned(s) == IF s # <<>> /\ Head(s) \in {"+", "-"} THEN Tail(s) ELSE s
Sign(s) == IF s # <<>> /\ Head(s) = "-" THEN -1 ELSE 1

\* int(text): ValueError unless the stripped text is an optionally signed,
\* non-empty run of decimal digits.
PyInt(s) ==
  LET t == Strip(s)
      u == Unsigned(t)
  IN  IF u # <<>> /\ AllDigits(u) THEN Return(Sign(t) * DigitsVal(u))
      ELSE Raise("ValueError")

\* A float is kept exactly, as mantissa m and number of decimals e
\* (value m / 10^e), with trailing zero decimals dropped: 8.50 = 8.5.
RECURSIVE Normal(_, _)
Normal(m, e) ==
  IF e > 0 /\ m % 10 = 0 THEN Normal(m \div 10, e - 1) ELSE [m |-> m, e |-> e]

\* float(text): ValueError unless the stripped text is an optionally signed
\* decimal numeral with at most one point and at least one digit.
PyFloat(s) ==
  LET t == Strip(s)
      u == Unsigned(t)
      parts == Split(u, ".")
      whole == parts[1]
      frac == IF Len(parts) = 2 THEN parts[2] ELSE <<>>
  IN  IF /\ Len(parts) <= 2
         /\ AllDigits(whole) /\ AllDigits(frac)
         /\ Len(whole) + Len(frac) >= 1
        THEN LET n == Normal(DigitsVal(whole \o frac), Len(frac))
             IN  Return([m |-> Sign(t) * n.m, e |-> n.e])
        ELSE Raise("ValueError")

Zero == [m |-> 0, e |-> 0]

----------------------------------------------------------------------------
(* GProduct and GProductList *)

\* The dataclass fields, in declaration order.
FieldNames ==
  <<"title", "reviews", "seo_ease_use_average",
    "seo_quality_support_average", "seo_ease_setup_average">>

\* GProduct(): every field at its default.
GProduct ==
  [title |-> None, reviews |-> None, seo_ease_use_average |-> Zero,
   seo_quality_support_average |-> Zero, seo_ease_setup_average |-> Zero]

\* dataclasses.asdict: the same fields, same order, same values.
Asdict(p) == [f \in {FieldNames[k] : k \in 1..Len(FieldNames)} |-> p[f]]

\* The columns pandas gives a frame built from a list of dicts: the keys of
\* the dicts in order of first appearance, hence none for an empty list.
Columns(dicts) == IF dicts = <<>> THEN <<>> ELSE FieldNames

\* GProductList.dataframe over a list of records: one row per record, the
\* row's cells in column order.  Cells hold the values; how pandas prints a
\* value is not modelled.
Dataframe(records) ==
  LET dicts == [k \in 1..Len(records) |-> Asdict(records[k])]
      cols == Columns(dicts)
  IN  [columns |-> cols,
       rows |-> [k \in 1..Len(dicts) |-> [c \in 1..Len(cols) |-> dicts[k][cols[c]]]]]

\* DataFrame.to_csv(index=False): the header line, then one line per row.
ToCsv(df) == <<df.columns>> \o df.rows

\* DataFrame.to_json(orient="records"): one object per row, keyed by column.
ToJson(df) ==
  [k \in 1..Len(df.rows) |->
     [c \in {df.columns[n] : n \in 1..Len(df.columns)} |->
        df.rows[k][CHOOSE n \in 1..Len(df.columns) : df.columns[n] = c]]]

----------------------------------------------------------------------------
(* The page and its locators *)

\* An XPath of the program: //tag[@class=class and @attr=value]; attr is ""
\* when the expression tests the class alone.
ScoreClass == "center-center fw-semibold text-medium"

title_xpath == [tag |-> "a", class |-> "c-midnight-100", attr |-> "", value |-> ""]
reviews_xpath ==
  [tag |-> "a", class |-> "link js-log-click", attr |-> "href",
   value |-> "https://www.g2.com/products/conductor/reviews#reviews"]
seo_ease_use_average_xpath ==
  [tag |-> "div", class |-> ScoreClass, attr |-> "style", value |-> "color: #ff492c"]
seo_quality_support_average_xpath ==
  [tag |-> "div", class |-> ScoreClass, attr |-> "style", value |-> "color: #5a39a2"]
seo_ease_setup_average_xpath ==
  [tag |-> "div", class |-> ScoreClass, attr |-> "style", value |-> "color: #5a39a2"]

Matches(x, el) ==
  /\ el.tag = x.tag
  /\ el.class = x.class
  /\ x.attr = "" \/ (el.attr = x.attr /\ el.value = x.value)

\* The rendered texts of the elements of the page an XPath matches, in
\* document order.
RECURSIVE Texts(_, _)
Texts(page, x) ==
  IF page = <<>> THEN <<>>
  ELSE (IF Matches(x, Head(page)) THEN <<Head(page).text>> ELSE <<>>)
         \o Texts(Tail(page), x)

\* page.locator(x).inner_text(): the text of the one matching element;
\* playwright's Error when none appears (timeout) or several match (strict
\* mode).
InnerText(page, x) ==
  LET ts == Texts(page, x)
  IN  IF Len(ts) = 1 THEN Return(ts[1]) ELSE Raise("Error")

\* page.locator(x).all_inner_texts(): the texts of all matching elements.
AllInnerTexts(page, x) == Return(Texts(page, x))

\* An await on the browser can also fail for reasons outside the page
\* (timeout, navigation failure, closed target): ok = FALSE.
Await(ok, r) == IF ok THEN r ELSE Raise("Error")

\* int(str(texts).split(" ")[1].split("'")[1])
ParseReviews(texts) ==
  LET token == Index1(Split(StrOfList(texts), " "))
      segment == IF token.raised = "none" THEN Index1(Split(token.val, "'"))
                 ELSE token
  IN  IF segment.raised = "none" THEN PyInt(segment.val) ELSE segment

\* float(str(text)); str() of a str is the same text.
ParseScore(text) == PyFloat(text)

\* The enclosing call applied to the result r of the awaited lookup, which
\* is not made when the lookup raised: str(), int(...) and float(...).
TitleOf(r) == IF r.raised = "none" THEN Return(r.val) ELSE r
CountOf(r) == IF r.raised = "none" THEN ParseReviews(r.val) ELSE r
ScoreOf(r) == IF r.raised = "none" THEN ParseScore(r.val) ELSE r

\* The value stored in a field declared with default None.
Stored(r) == IF r.raised = "none" THEN Return(Some(r.val)) ELSE r

----------------------------------------------------------------------------
(* Pages the runs visit *)

El(tag, class, attr, value, text) ==
  [tag |-> tag, class |-> class, attr |-> attr, value |-> value, text |-> text]

TitleEl(text) == El("a", "c-midnight-100", "href", "/products/conductor", text)
ReviewsEl(text) ==
  El("a", "link js-log-click", "href",
     "https://www.g2.com/products/conductor/reviews#reviews", text)
ScoreEl(color, text) == El("div", ScoreClass, "style", color, text)

Conductor == <<"C", "o", "n", "d", "u", "c", "t", "o", "r">>

\* The page of the specification's example: one reviews link reading
\* 1,234 reviews of 'Conductor', three score elements 8.5, 9.1 and 8.7.
ConductorPage ==
  <<TitleEl(Conductor),
    ReviewsEl(<<"1", ",", "2", "3", "4", " ", "r", "e", "v", "i", "e", "w", "s", " ", "o", "f", " ", "'", "C", "o", "n", "d", "u", "c", "t", "o", "r", "'">>),
    ScoreEl("color: #ff492c", <<"8", ".", "5">>),
    ScoreEl("color: #5a39a2", <<"9", ".", "1">>),
    ScoreEl("color: #2ea44f", <<"8", ".", "7">>)>>

\* A page the count parse succeeds on: two reviews links, the second one
\* reading 234, and three different scores.
GoodPage ==
  <<TitleEl(Conductor),
    ReviewsEl(<<"4", ".", "5">>), ReviewsEl(<<"2", "3", "4">>),
    ScoreEl("color: #ff492c", <<"8", ".", "5", "0">>),
    ScoreEl("color: #5a39a2", <<"9", ".", "1">>),
    ScoreEl("color: #2ea44f", <<"8", ".", "7">>)>>

\* The count reads 1,234: int() rejects the comma.
BadCountPage ==
  <<TitleEl(<<"A">>),
    ReviewsEl(<<"4", ".", "5">>), ReviewsEl(<<"1", ",", "2", "3", "4">>),
    ScoreEl("color: #ff492c", <<"8", ".", "5">>),
    ScoreEl("color: #5a39a2", <<"9", ".", "1">>)>>

\* One reviews link whose second word is the quoted count '12', a negative
\* first score, and a second score that is not a number.
BadScorePage ==
  <<TitleEl(<<"B">>),
    ReviewsEl(<<"x", " ", "'", "1", "2", "'", " ", "y">>),
    ScoreEl("color: #ff492c", <<"-", "1", ".", "5">>),
    ScoreEl("color: #5a39a2", <<"n", "/", "a">>)>>

Pages == {ConductorPage, GoodPage, BadCountPage, BadScorePage}

\* The URL lists of the runs: every list of at most MaxUrls pages.
UrlLists == UNION {[1..n -> Pages] : n \in 0..MaxUrls}

----------------------------------------------------------------------------
(* scrape_g2crowd_urls *)

VARIABLES
  urls,          \* g2crowd_urls: the pages behind the URLs, in list order
  pc,            \* the statement about to run
  i,             \* how many URLs the for loop has taken from the list
  product,       \* the local `product`: 0 while unbound, else a heap address
  heap,          \* the GProduct objects created so far, by address
  createdIn,     \* per heap address, the iteration whose GProduct() made it
  product_list,  \* products_list.product_list: heap addresses, in order
  browser,       \* "none", "open" or "closed"
  releases,      \* how many times the browser has been released
  exc,           \* the exception in flight, "none" when there is none
  failedAt,      \* the statement that raised in the current iteration
  log,           \* what the except clause has printed
  csv_file,      \* g2_data.csv: None until written
  json_file      \* g2_data.json: None until written

vars ==
  <<urls, pc, i, product, heap, createdIn, product_list, browser, releases,
    exc, failedAt, log, csv_file, json_file>>

\* The statements of the loop body, in order.
BodySteps ==
  <<"goto", "new_product", "title", "reviews", "seo_ease_use_average",
    "seo_quality_support_average", "seo_ease_setup_average">>

InBody == {BodySteps[k] : k \in 1..Len(BodySteps)} \cup {"except", "append"}

\* The page the current iteration visits.
Page == urls[i]

Init ==
  /\ urls \in UrlLists
  /\ pc = "launch"
  /\ i = 0
  /\ product = 0
  /\ heap = <<>>
  /\ createdIn = <<>>
  /\ product_list = <<>>
  /\ browser = "none"
  /\ releases = 0
  /\ exc = "none"
  /\ failedAt = "none"
  /\ log = <<>>
  /\ csv_file = None
  /\ json_file = None

\* `except Error`: the clause catches playwright's Error (and its
\* subclasses, such as TimeoutError) and nothing else.
CaughtAny(e) == TRUE
Caught(e) == e = "Error"

\* Where control goes when a statement of the try block raises e.
Handler(e) == IF Caught(e) THEN "except" ELSE "exit"

\* A statement of the try block that assigns the result r of a call to
\* product.<field>, or raises: on raising nothing is assigned.
Assign(here, next, field, r) ==
  /\ pc = here
  /\ IF r.raised = "none"
       THEN /\ heap' = [heap EXCEPT ![product][field] = r.val]
            /\ pc' = next
            /\ UNCHANGED <<exc, failedAt>>
       ELSE /\ exc' = r.raised
            /\ failedAt' = here
            /\ pc' = Handler(r.raised)
            /\ UNCHANGED heap
  /\ UNCHANGED <<urls, i, product, createdIn, product_list, browser, releases,
                 log, csv_file, json_file>>

\* browser = await playwright.chromium.launch(headless=False)
Launch ==
  /\ pc = "launch"
  /\ \E ok \in BOOLEAN :
       IF ok THEN /\ browser' = "open"
                  /\ pc' = "new_page"
                  /\ UNCHANGED <<exc, failedAt>>
             ELSE /\ exc' = "Error"
                  /\ failedAt' = "launch"
                  /\ pc' = "exit"
                  /\ UNCHANGED browser
  /\ UNCHANGED <<urls, i, product, heap, createdIn, product_list, releases,
                 log, csv_file, json_file>>

\* page = await browser.new_page(); products_list = GProductList()
NewPage ==
  /\ pc = "new_page"
  /\ \E ok \in BOOLEAN :
       IF ok THEN /\ product_list' = <<>>
                  /\ pc' = "for"
                  /\ UNCHANGED <<exc, failedAt>>
             ELSE /\ exc' = "Error"
                  /\ failedAt' = "new_page"
                  /\ pc' = "exit"
                  /\ UNCHANGED product_list
  /\ UNCHANGED <<urls, i, product, heap, createdIn, browser, releases, log,
                 csv_file, json_file>>

\* for url in g2crowd_urls: the next URL, or the statements after the loop.
ForNext ==
  /\ pc = "for"
  /\ IF i < Len(urls)
       THEN /\ i' = i + 1
            /\ failedAt' = "none"
            /\ pc' = "goto"
       ELSE /\ pc' = "save_to_csv"
            /\ UNCHANGED <<i, failedAt>>
  /\ UNCHANGED <<urls, product, heap, createdIn, product_list, browser,
                 releases, exc, log, csv_file, json_file>>

\* await page.goto(url); await page.wait_for_load_state()
Goto ==
  /\ pc = "goto"
  /\ \E ok \in BOOLEAN :
       IF ok THEN /\ pc' = "new_product"
                  /\ UNCHANGED <<exc, failedAt>>
             ELSE /\ exc' = "Error"
                  /\ failedAt' = "goto"
                  /\ pc' = Handler("Error")
  /\ UNCHANGED <<urls, i, product, heap, createdIn, product_list, browser,
                 releases, log, csv_file, json_file>>

\* product = GProduct(), with an object of the loop reused instead of a new
\* one made.
NewProductReused ==
  /\ pc = "new_product"
  /\ IF product = 0
       THEN /\ heap' = Append(heap, GProduct)
            /\ createdIn' = Append(createdIn, i)
            /\ product' = Len(heap) + 1
       ELSE UNCHANGED <<heap, createdIn, product>>
  /\ pc' = "title"
  /\ UNCHANGED <<urls, i, product_list, browser, releases, exc, failedAt, log,
                 csv_file, json_file>>

\* product = GProduct(): a new object, bound to the local.
NewProduct ==
  /\ pc = "new_product"
  /\ heap' = Append(heap, GProduct)
  /\ createdIn' = Append(createdIn, i)
  /\ product' = Len(heap) + 1
  /\ pc' = "title"
  /\ UNCHANGED <<urls, i, product_list, browser, releases, exc, failedAt, log,
                 csv_file, json_file>>

\* product.title = str(await page.locator(title_xpath).inner_text())
ReadTitle ==
  \E ok \in BOOLEAN :
    Assign("title", "reviews", "title",
           Stored(TitleOf(Await(ok, InnerText(Page, title_xpath)))))

\* product.reviews = int(str(await page.locator(reviews_xpath)
\*                           .all_inner_texts()).split(" ")[1].split("'")[1])
ReadReviews ==
  \E ok \in BOOLEAN :
    Assign("reviews", "seo_ease_use_average", "reviews",
           Stored(CountOf(Await(ok, AllInnerTexts(Page, reviews_xpath)))))

\* product.seo_ease_use_average = float(str(await page.locator(
\*     seo_ease_use_average_xpath).inner_text()))
ReadEaseUse ==
  \E ok \in BOOLEAN :
    Assign("seo_ease_use_average", "seo_quality_support_average",
           "seo_ease_use_average",
           ScoreOf(Await(ok, InnerText(Page, seo_ease_use_average_xpath))))

\* product.seo_quality_support_average = float(str(await page.locator(
\*     seo_quality_support_average_xpath).inner_text()))
ReadQualitySupport ==
  \E ok \in BOOLEAN :
    Assign("seo_quality_support_average", "seo_ease_setup_average",
           "seo_quality_support_average",
           ScoreOf(Await(ok, InnerText(Page, seo_quality_support_average_xpath))))

\* product.seo_ease_setup_average = float(str(await page.locator(
\*     seo_ease_setup_average_xpath).inner_text()))
ReadEaseSetup ==
  \E ok \in BOOLEAN :
    Assign("seo_ease_setup_average", "append", "seo_ease_setup_average",
           ScoreOf(Await(ok, InnerText(Page, seo_ease_setup_average_xpath))))

\* except Error as e: print(f"Error scraping {url}: {str(e)}")
Except ==
  /\ pc = "except"
  /\ log' = Append(log, [url |-> i, error |-> exc, at |-> failedAt])
  /\ exc' = "none"
  /\ pc' = "append"
  /\ UNCHANGED <<urls, i, product, heap, createdIn, product_list, browser,
                 releases, failedAt, csv_file, json_file>>

\* products_list.product_list.append(product): reading the local raises
\* UnboundLocalError while no GProduct() has been bound to it.
AppendProduct ==
  /\ pc = "append"
  /\ IF product = 0
       THEN /\ exc' = "UnboundLocalError"
            /\ failedAt' = "append"
            /\ pc' = "exit"
            /\ UNCHANGED product_list
       ELSE /\ product_list' = Append(product_list, product)
            /\ pc' = "for"
            /\ UNCHANGED <<exc, failedAt>>
  /\ UNCHANGED <<urls, i, product, heap, createdIn, browser, releases, log,
                 csv_file, json_file>>

\* The records of the collection, in order.
Records == [k \in 1..Len(product_list) |-> heap[product_list[k]]]

\* products_list.save_to_csv("g2_data")
SaveToCsv ==
  /\ pc = "save_to_csv"
  /\ csv_file' = Some(ToCsv(Dataframe(Records)))
  /\ pc' = "save_to_json"
  /\ UNCHANGED <<urls, i, product, heap, createdIn, product_list, browser,
                 releases, exc, failedAt, log, json_file>>

\* products_list.save_to_json("g2_data")
SaveToJson ==
  /\ pc = "save_to_json"
  /\ json_file' = Some(ToJson(Dataframe(Records)))
  /\ pc' = "close"
  /\ UNCHANGED <<urls, i, product, heap, createdIn, product_list, browser,
                 releases, exc, failedAt, log, csv_file>>

\* await browser.close()
BrowserClose ==
  /\ pc = "close"
  /\ browser' = "closed"
  /\ releases' = releases + 1
  /\ pc' = "exit"
  /\ UNCHANGED <<urls, i, product, heap, createdIn, product_list, exc,
                 failedAt, log, csv_file, json_file>>

\* The exit of `async with`, which leaves a browser that is still open
\* running.
ContextExitLeaking ==
  /\ pc = "exit"
  /\ pc' = "done"
  /\ UNCHANGED <<urls, i, product, heap, createdIn, product_list, browser,
                 releases, exc, failedAt, log, csv_file, json_file>>

\* The exit of `async with async_playwright()`, reached by falling off the
\* block or by an exception unwinding through it: playwright stops its
\* driver, which takes down a browser that is still open.  An exception in
\* flight goes on to the caller.
ContextExit ==
  /\ pc = "exit"
  /\ IF browser = "open"
       THEN browser' = "closed" /\ releases' = releases + 1
       ELSE UNCHANGED <<browser, releases>>
  /\ pc' = "done"
  /\ UNCHANGED <<urls, i, product, heap, createdIn, product_list, exc,
                 failedAt, log, csv_file, json_file>>

Next ==
  \/ Launch
  \/ NewPage
  \/ ForNext
  \/ Goto
  \/ NewProduct
  \/ ReadTitle
  \/ ReadReviews
  \/ ReadEaseUse
  \/ ReadQualitySupport
  \/ ReadEaseSetup
  \/ Except
  \/ AppendProduct
  \/ SaveToCsv
  \/ SaveToJson
  \/ BrowserClose
  \/ ContextExit

Spec == Init /\ [][Next]_vars

\* The program is one sequential task: whenever a statement can run, one
\* does (every await returns or raises within playwright's timeouts).
FairSpec == Spec /\ WF_vars(Next)

----------------------------------------------------------------------------
(* Properties *)

Range(f) == {f[k] : k \in DOMAIN f}

\* Control is outside the loop body, the browser and page acquired: every
\* URL taken from the list so far has been dealt with.
BetweenUrls == pc \notin InBody /\ pc \notin {"launch", "new_page"}
AcquireFailed == failedAt \in {"launch", "new_page"}

\* No await of the current iteration has raised playwright's Error.
AwaitsReturned == exc # "Error" /\ (log = <<>> \/ log[Len(log)].url # i)

ScoreSteps ==
  {"seo_ease_use_average", "seo_quality_support_average", "seo_ease_setup_average"}

\* C1: one record is appended per URL processed, whatever failed: whenever
\* control is between URLs (or past the loop, or the run has ended), the
\* collection holds as many records as URLs have been taken from the list.
C1_OneRecordPerUrl == BetweenUrls => Len(product_list) = i

\* C2: a failure while processing a URL (navigation, lookup, count parse,
\* score parse) never ends the run: an exception unwinds out of the run only
\* when acquiring the browser or the page failed.
C2_FailuresContained == (pc \in {"exit", "done"} /\ exc # "none") => AcquireFailed

\* C3: the k-th record of the collection was created while processing the
\* k-th URL.
C3_VisitationOrder ==
  \A k \in 1..Len(product_list) : createdIn[product_list[k]] = k

\* C4: the browser is released exactly once on every path: never twice, it
\* is open whenever a URL is navigated, a run that acquired it ends with it
\* released, and once open it is eventually closed.
C4_BrowserReleased ==
  /\ [](releases <= 1)
  /\ [](pc \in InBody => browser = "open")
  /\ []((pc = "done" /\ browser # "none") => (browser = "closed" /\ releases = 1))
  /\ ((browser = "open") ~> (browser = "closed"))

\* C4 witness: a run in which a URL's error was caught and logged and a later
\* exception unwound through the context exit, which released the browser.
C4_Witness ==
  /\ pc = "done"
  /\ Len(log) >= 1
  /\ exc \in {"IndexError", "ValueError"}
  /\ browser = "closed"
  /\ releases = 1

\* C5: the collection is exported exactly twice per run, CSV then JSON, both
\* after the last URL and both of the whole collection: a file is written
\* only once every URL has been processed, JSON only after CSV, each holds
\* one row per record, and a run that acquired the browser and page ends
\* with both written.
C5_Lifecycle ==
  /\ csv_file # None =>
       /\ i = Len(urls) /\ BetweenUrls
       /\ Len(csv_file[1]) = Len(product_list) + 1
  /\ json_file # None =>
       /\ csv_file # None
       /\ Len(json_file[1]) = Len(product_list)
  /\ (pc = "done" /\ ~AcquireFailed) => (csv_file # None /\ json_file # None)

\* The value the statement assigning `field` computes on a page.
FieldValue(page, field) ==
  CASE field = "title" -> Some(InnerText(page, title_xpath).val)
    [] field = "reviews" -> Some(ParseReviews(Texts(page, reviews_xpath)).val)
    [] field = "seo_ease_use_average" ->
         ParseScore(InnerText(page, seo_ease_use_average_xpath).val).val
    [] field = "seo_quality_support_average" ->
         ParseScore(InnerText(page, seo_quality_support_average_xpath).val).val
    [] field = "seo_ease_setup_average" ->
         ParseScore(InnerText(page, seo_ease_setup_average_xpath).val).val

\* C6: when the extraction of a URL failed at one field, the record appended
\* for that URL holds the values read for the earlier fields and the
\* defaults for the failing field and the later ones.
C6_PartialFailureKeeps ==
  (BetweenUrls /\ failedAt \in Range(FieldNames)) =>
    /\ Len(product_list) = i
    /\ LET r == heap[product_list[i]]
           f == CHOOSE k \in 1..Len(FieldNames) : FieldNames[k] = failedAt
       IN  \A k \in 1..Len(FieldNames) :
             r[FieldNames[k]] = IF k < f THEN FieldValue(Page, FieldNames[k])
                                         ELSE GProduct[FieldNames[k]]

OnConductor == i >= 1 /\ urls[i] = ConductorPage

C8_EmptyExport ==
  /\ (urls = <<>> /\ csv_file # None) => csv_file[1] = <<FieldNames>>
  /\ (urls = <<>> /\ json_file # None) => json_file[1] = <<>>

\* C9: a record is immutable once appended: no step changes a record of the
\* collection, and a step that changes a record changes the one bound to
\* `product`, created in the current iteration and not in the collection.
C9_AppendedImmutable ==
  [][/\ \A k \in 1..Len(product_list) :
          heap'[product_list[k]] = heap[product_list[k]]
     /\ \A a \in 1..Len(heap) :
          heap'[a] # heap[a] =>
            /\ a = product
            /\ createdIn[a] = i
            /\ a \notin Range(product_list)]_vars

\* C9 witness: after a URL that failed and whose record was appended, the
\* next iteration has assigned the title of its own, new record.
C9_Witness ==
  /\ Len(log) >= 1
  /\ Len(product_list) >= 1
  /\ pc = "reviews"
  /\ heap[product].title # None
  /\ product \notin Range(product_list)

\* The page holds exactly three score elements, with three different values.
ThreeScores(page) ==
  LET x == [tag |-> "div", class |-> ScoreClass, attr |-> "", value |-> ""]
      ts == Texts(page, x)
  IN  /\ Len(ts) = 3
      /\ \A k \in 1..3 : ParseScore(ts[k]).raised = "none"
      /\ \A j, k \in 1..3 : j # k => ParseScore(ts[j]).val # ParseScore(ts[k]).val

\* C10: the three scores come from three selectors: on a page whose three
\* score elements hold three different values, a successful extraction
\* yields three different scores.
C10_DistinctScoreSelectors ==
  (pc = "append" /\ failedAt = "none" /\ ThreeScores(Page)) =>
    LET r == heap[product]
    IN  /\ r.seo_ease_use_average # r.seo_quality_support_average
        /\ r.seo_ease_use_average # r.seo_ease_setup_average
        /\ r.seo_quality_support_average # r.seo_ease_setup_average

====
